---- MODULE Spec2Model ----
(***************************************************************************)
(* PixelCNN notebook (src/pixelrnn.ipynb): the masked-convolution model,   *)
(* the two raster-scan generation loops and the training loop.             *)
(*                                                                         *)
(* Numbers.  Pixels are the floats 0.0 / 1.0 and are kept as 0 / 1.        *)
(* Weights, biases and logits are integers.  Probabilities and losses are  *)
(* fixed point, in thousandths (500 is 0.5).                               *)
(***************************************************************************)
EXTENDS Integers, Sequences, FiniteSets, TLC

VARIABLES
    height,             \* image height passed to pixelRNN / the generators
    width,              \* image width
    batch_size,         \* p.batch_size
    params,             \* the trainable variables of the graph, one record per layer
    output,             \* the tensor handed to predict as `output`
    images,             \* the notebook global `images` (<< >> while unassigned)
    samples,            \* the Canvas of the running generation call
    pc,                 \* position in the notebook / in the running call
    i,                  \* row loop index of the generation loop
    j,                  \* column loop index of the generation loop
    passes,             \* forward passes (predict calls) of the running call
    writes,             \* the assignments samples[:, i, j] = ... of the running call
    probs,              \* the last value predict returned outside a generation loop
    epoch,              \* the training loop's epoch
    idx,                \* the inner loops' step index
    total_train_costs,  \* costs of the epoch's training steps
    total_test_costs,   \* costs of the epoch's test steps
    gradients,          \* what the last training step got from compute_gradients
    applied,            \* what the last training step gave to apply_gradients
    stat,               \* the Statistic object: on_step calls and their arguments
    since_on_step,      \* optimizer steps run since the last stat.on_step call
    cursor,             \* the datasets' read positions: [train |-> , test |-> ]
    kernel,             \* the kernel shape and mask type a conv2d call is made with
    built_mask          \* the mask that call built (<< >> before the call)

shapeVars == << height, width, batch_size >>
modelVars == << params, output >>
genVars   == << samples, i, j, passes, writes >>
trainVars == << epoch, idx, total_train_costs, total_test_costs, gradients, applied,
                stat, since_on_step, cursor >>
maskVars  == << kernel, built_mask >>

vars == << shapeVars, modelVars, images, pc, genVars, probs, trainVars, maskVars >>

-----------------------------------------------------------------------------
(* Bounds of the model *)

MaxHeight == 3
MaxWidth == 3
MaxBatch == 1
NumProfiles == 4
MaxSide == 4
MaxKernel == 7
max_epoch == 2
NumTrainExamples == 2
NumTestExamples == 1
GradMax == 3

(* Hyperparameters of the network, scaled down (16, 7 and 32 in the notebook) *)
hidden_dims == 2
recurrent_length == 2
out_hidden_dims == 2

(* Program constants *)
out_recurrent_length == 2
channel == 1
KernelSize == 7
ConvChannels == 3
GenerateBatch == 100
Threshold == 500
grad_clip == 1

-----------------------------------------------------------------------------
(* Helpers *)

(* The function f as an explicit table of its values; a function constructor
   is otherwise evaluated anew at every application *)
Table(f) == f @@ << >>

(* F applied to the value of e, which is computed once whatever F does with it *)
Bind(e, F(_)) == CHOOSE r \in { F(x) : x \in {e} } : TRUE

(* f[1] + ... + f[n] *)
RECURSIVE SumTo(_, _)
SumTo(f, n) == IF n = 0 THEN 0 ELSE f[n] + SumTo(f, n - 1)

Sum(f, n) == Bind(f, LAMBDA g : SumTo(g, n))

Pos(h, w) == (0 .. h - 1) \X (0 .. w - 1)

(* p comes before q in raster order: a row above, or left in the same row *)
Before(p, q) == p[1] < q[1] \/ (p[1] = q[1] /\ p[2] < q[2])

Range(s) == { s[k] : k \in DOMAIN s }

-----------------------------------------------------------------------------
(* Mask Generator and Masked Convolution Layer (ops.conv2d) *)

(* Ones, then zeros right of the center in its row and in every row below it,
   and for type "A" a zero at the center too *)
MaskGenerator(kh, kw, t) ==
    LET center_h == kh \div 2
        center_w == kw \div 2
        Right(q) == q[1] = center_h /\ q[2] > center_w
        Below(q) == q[1] > center_h
        b_mask == Table([ q \in (0 .. kh - 1) \X (0 .. kw - 1) |->
                            IF Right(q) \/ Below(q) THEN 0 ELSE 1 ])
    IN  IF t = "A" THEN [ b_mask EXCEPT ![<< center_h, center_w >>] = 0 ] ELSE b_mask

(* The masked kernel applied at one output position, for every output channel *)
ConvAt(x, lp, m, kh, kw, cout, h, w, pos) ==
    LET cin == Len(x[pos])
        Lo(k, at) == IF k \div 2 > at THEN k \div 2 - at ELSE 0
        Hi(k, at, n) == IF k \div 2 + n - 1 - at < k - 1 THEN k \div 2 + n - 1 - at ELSE k - 1
        (* the kernel positions whose input pixel lies inside the image, numbered
           1 .. rows * cols *)
        cols == Hi(kw, pos[2], w) - Lo(kw, pos[2]) + 1
        rows == Hi(kh, pos[1], h) - Lo(kh, pos[1]) + 1
        Tap(k) == << Lo(kh, pos[1]) + ((k - 1) \div cols), Lo(kw, pos[2]) + ((k - 1) % cols) >>
        Src(q) == << pos[1] + q[1] - kh \div 2, pos[2] + q[2] - kw \div 2 >>
        Dot(q, co) ==
            Sum([ ci \in 1 .. cin |-> lp.w[<<q[1], q[2], ci, co>>] * x[Src(q)][ci] ], cin)
    IN  Table([ co \in 1 .. cout |->
                  lp.b[co] + Sum([ k \in 1 .. rows * cols |-> m[Tap(k)] * Dot(Tap(k), co) ],
                                 rows * cols) ])

(* stride 1, "same" padding: taps that fall outside the input read zero *)
conv2d(inp, lp, kh, kw, t, cout, h, w) ==
    Bind(inp, LAMBDA x :
    Bind(MaskGenerator(kh, kw, t), LAMBDA m :
    Bind(lp, LAMBDA v :
        Table([ pos \in Pos(h, w) |-> ConvAt(x, v, m, kh, kw, cout, h, w, pos) ]))))

relu(feat) ==
    Bind(feat, LAMBDA f :
        Table([ pos \in DOMAIN f |->
                  Table([ c \in DOMAIN f[pos] |-> IF f[pos][c] > 0 THEN f[pos][c] ELSE 0 ]) ]))

(* 1000 / (1 + e^-x), rounded *)
sigmoid(x) ==
    CASE x <= -5 -> 7
      [] x = -4 -> 18
      [] x = -3 -> 47
      [] x = -2 -> 119
      [] x = -1 -> 269
      [] x = 0 -> 500
      [] x = 1 -> 731
      [] x = 2 -> 881
      [] x = 3 -> 953
      [] x = 4 -> 982
      [] OTHER -> 993

-----------------------------------------------------------------------------
(* pixelRNN: the layers, in order *)

(* Variant: the first layer built with the mask of the later layers *)
FirstMaskType_B == "B"

FirstMaskType == "A"

(* Variant: the later layers built with the mask of the first *)
LaterMaskType_A == "A"

LaterMaskType == "B"

Layers ==
    << [ kh |-> KernelSize, kw |-> KernelSize, t |-> FirstMaskType,
         out |-> hidden_dims, relu |-> FALSE ] >>
    \o [ n \in 1 .. recurrent_length |->
         [ kh |-> 1, kw |-> 1, t |-> LaterMaskType, out |-> ConvChannels, relu |-> FALSE ] ]
    \o [ n \in 1 .. out_recurrent_length |->
         [ kh |-> 1, kw |-> 1, t |-> LaterMaskType, out |-> out_hidden_dims, relu |-> TRUE ] ]
    \o << [ kh |-> 1, kw |-> 1, t |-> LaterMaskType, out |-> 1, relu |-> FALSE ] >>

NumLayers == Len(Layers)

InChannels(l) == IF l = 1 THEN channel ELSE Layers[l - 1].out

(* One layer applied to the feature map before it: conv2d, then relu where
   pixelRNN wraps the layer in tf.nn.relu *)
Layer(l, inp, prm, h, w) ==
    IF Layers[l].relu
    THEN relu(conv2d(inp, prm[l], Layers[l].kh, Layers[l].kw, Layers[l].t, Layers[l].out, h, w))
    ELSE conv2d(inp, prm[l], Layers[l].kh, Layers[l].kw, Layers[l].t, Layers[l].out, h, w)

(* The feature map after layer l for one image x; layer 0 is the input *)
RECURSIVE Hidden(_, _, _, _, _)
Hidden(l, prm, x, h, w) ==
    IF l = 0 THEN Table([ pos \in Pos(h, w) |-> << x[pos] >> ])
    ELSE Bind(Hidden(l - 1, prm, x, h, w), LAMBDA prev : Layer(l, prev, prm, h, w))

(* conv2d_out_logits and output of pixelRNN for one image *)
Logits(prm, x, h, w) ==
    Bind(Hidden(NumLayers, prm, x, h, w), LAMBDA last :
        Table([ pos \in Pos(h, w) |-> last[pos][1] ]))

pixelRNN(prm, x, h, w) ==
    Bind(Logits(prm, x, h, w), LAMBDA lg :
        Table([ pos \in Pos(h, w) |-> sigmoid(lg[pos]) ]))

-----------------------------------------------------------------------------
(* predict, binarize, occlude *)

(* sess.run(output, {inputs: x}) for one image of the batch *)
Run(out, prm, x, h, w) ==
    IF out.kind = "const" THEN Table([ pos \in Pos(h, w) |-> out.p ])
    ELSE pixelRNN(prm, x, h, w)

(* The batch is run image by image: no image's result depends on another's *)
predict(out, prm, imgs, h, w) ==
    Bind([ x \in Range(imgs) |-> Run(out, prm, x, h, w) ] @@ << >>, LAMBDA one :
        Table([ b \in DOMAIN imgs |-> one[imgs[b]] ]))

binarize(pr) ==
    Bind(pr, LAMBDA v :
        Table([ b \in DOMAIN v |->
                  Table([ pos \in DOMAIN v[b] |-> IF v[b][pos] > Threshold THEN 1 ELSE 0 ]) ]))

occlude(imgs, h, w) == imgs

(* Variant: the whole of next_sample is kept, not only pixel (r, c) *)
WritePixel_all(canvas, next_sample, r, c) == next_sample

(* samples[:, i, j] = next_sample[:, i, j] *)
WritePixel(canvas, next_sample, r, c) ==
    [ b \in DOMAIN canvas |-> [ canvas[b] EXCEPT ![<<r, c>>] = next_sample[b][<<r, c>>] ] ]

-----------------------------------------------------------------------------
(* Inputs: parameter values, seed batches, output tensors *)

(* Parameter values for every layer; profile 1 is all-positive, the others mix signs *)
MkParams(s) ==
    [ l \in 1 .. NumLayers |->
        [ w |-> [ q \in (0 .. Layers[l].kh - 1) \X (0 .. Layers[l].kw - 1)
                        \X (1 .. InChannels(l)) \X (1 .. Layers[l].out) |->
                    IF s = 1 THEN 1
                    ELSE ((2 * q[1] + 3 * q[2] + q[3] + s * q[4] + l + s) % 3) - 1 ],
          b |-> [ co \in 1 .. Layers[l].out |->
                    IF s = 1 THEN 0 - l ELSE ((co + l + s) % 3) - 1 ] ] ]

ParamSet == { MkParams(s) : s \in 1 .. NumProfiles }

(* The output tensor of pixelRNN, or a tensor that holds one probability
   everywhere whatever is fed *)
PixelCNN == [ kind |-> "pixelcnn", p |-> 0 ]

Constant(q) == [ kind |-> "const", p |-> q ]

(* The (output, params) pairs a generation call may be made with *)
Models == { << PixelCNN, prm >> : prm \in ParamSet }
          \cup { << Constant(q), MkParams(1) >> : q \in {100, 500, 900} }

(* Binarized seed images: top half set, checkerboard *)
SeedImages(h, w) ==
    { Table([ pos \in Pos(h, w) |-> IF pos[1] < h \div 2 THEN 1 ELSE 0 ]),
      Table([ pos \in Pos(h, w) |-> (pos[1] + pos[2]) % 2 ]) }

Batches(n, h, w) == [ 1 .. n -> SeedImages(h, w) ]

-----------------------------------------------------------------------------
(* The generation loops *)

(* The parts of the state a specification leaves alone *)
TrainIdle ==
    /\ epoch = 0
    /\ idx = 0
    /\ total_train_costs = << >>
    /\ total_test_costs = << >>
    /\ gradients = << >>
    /\ applied = << >>
    /\ stat = [ t |-> 0, train |-> 0, test |-> 0 ]
    /\ since_on_step = 0
    /\ cursor = [ train |-> 0, test |-> 0 ]

MaskIdle ==
    /\ kernel = [ kh |-> 1, kw |-> 1, t |-> "B" ]
    /\ built_mask = << >>

GenIdle ==
    /\ samples = << >>
    /\ i = 0
    /\ j = 0
    /\ passes = 0
    /\ writes = << >>

GenInit ==
    /\ height \in 1 .. MaxHeight
    /\ width \in 1 .. MaxWidth
    /\ batch_size \in 1 .. MaxBatch
    /\ \E m \in Models : output = m[1] /\ params = m[2]
    /\ images \in Batches(batch_size, height, width)
    /\ samples = << >>
    /\ pc = "idle"
    /\ i = 0
    /\ j = 0
    /\ passes = 0
    /\ writes = << >>
    /\ probs = << >>
    /\ TrainIdle
    /\ MaskIdle

(* Variant: the loop starts at the top row *)
StartRow_top(h) == 0

(* Variant: the split rounds up, so an odd height regenerates the smaller half *)
StartRow_up(h) == (h + 1) \div 2

(* The first row the loop of generate_occlusions regenerates: starting_position[1] *)
StartRow(h) == h \div 2

(* Variant: the inner loop runs once per row *)
NextIndex_row(r, c, w) == << r + 1, 0 >>

(* The loop indices after the body ran at (r, c): next column, else next row *)
NextIndex(r, c, w) == IF c + 1 < w THEN << r, c + 1 >> ELSE << r + 1, 0 >>

(* One run of the loop body, the same two statements in both loops *)
LoopBody ==
    /\ i < height
    /\ \E next_sample \in { binarize(predict(output, params, samples, height, width)) } :
       LET nxt == NextIndex(i, j, width)
       IN  /\ samples' = WritePixel(samples, next_sample, i, j)
           /\ passes' = passes + 1
           /\ writes' = Append(writes, [ pos |-> << i, j >>,
                                         vals |-> [ b \in DOMAIN samples |->
                                                      next_sample[b][<< i, j >>] ] ])
           /\ i' = nxt[1]
           /\ j' = nxt[2]
    /\ UNCHANGED << shapeVars, modelVars, images, pc, probs, trainVars, maskVars >>

generate ==
    /\ pc = "idle"
    /\ samples' = [ b \in 1 .. GenerateBatch |-> [ pos \in Pos(height, width) |-> 0 ] ]
    /\ pc' = "generate"
    /\ i' = 0
    /\ j' = 0
    /\ passes' = 0
    /\ writes' = << >>
    /\ UNCHANGED << shapeVars, modelVars, images, probs, trainVars, maskVars >>

generate_step ==
    /\ pc = "generate"
    /\ LoopBody

generate_return ==
    /\ pc = "generate"
    /\ i >= height
    /\ pc' = "generate_done"
    /\ UNCHANGED << shapeVars, modelVars, images, genVars, probs, trainVars, maskVars >>

generate_occlusions ==
    /\ pc = "idle"
    /\ samples' = occlude(images, height, width)
    /\ pc' = "occlusions"
    /\ i' = StartRow(height)
    /\ j' = 0
    /\ passes' = 0
    /\ writes' = << >>
    /\ UNCHANGED << shapeVars, modelVars, images, probs, trainVars, maskVars >>

occlusions_step ==
    /\ pc = "occlusions"
    /\ LoopBody

occlusions_return ==
    /\ pc = "occlusions"
    /\ i >= height
    /\ pc' = "occlusions_done"
    /\ UNCHANGED << shapeVars, modelVars, images, genVars, probs, trainVars, maskVars >>

GenNext ==
    \/ generate
    \/ generate_step
    \/ generate_return
    \/ generate_occlusions
    \/ occlusions_step
    \/ occlusions_return

SpecGen == GenInit /\ [][GenNext]_vars

-----------------------------------------------------------------------------
(* The mask generator on its own: any kernel shape, either type *)

MaskInit ==
    /\ height = 1
    /\ width = 1
    /\ batch_size = 1
    /\ params = MkParams(1)
    /\ output = PixelCNN
    /\ images = << >>
    /\ pc = "idle"
    /\ probs = << >>
    /\ GenIdle
    /\ TrainIdle
    /\ kernel \in [ kh : 1 .. MaxKernel, kw : 1 .. MaxKernel, t : { "A", "B" } ]
    /\ built_mask = << >>

build_mask ==
    /\ pc = "idle"
    /\ built_mask' = MaskGenerator(kernel.kh, kernel.kw, kernel.t)
    /\ pc' = "masked"
    /\ UNCHANGED << shapeVars, modelVars, images, genVars, probs, trainVars, kernel >>

MaskNext == build_mask

SpecMask == MaskInit /\ [][MaskNext]_vars

-----------------------------------------------------------------------------
(* The model on its own: one predict call on a batch of two canvases *)

Flip(x, q) == [ x EXCEPT ![q] = 1 - x[q] ]

(* x with every position from q on, in raster order, flipped *)
FlipFrom(x, q) == Table([ pos \in DOMAIN x |-> IF Before(pos, q) THEN x[pos] ELSE 1 - x[pos] ])

Canvases(h, w) == SeedImages(h, w) \cup { Table([ pos \in Pos(h, w) |-> 1 ]) }

CanvasPairs(h, w) ==
    { << x, Flip(x, q) >> : x \in Canvases(h, w), q \in Pos(h, w) }
    \cup { << x, FlipFrom(x, q) >> : x \in Canvases(h, w), q \in Pos(h, w) }

(* Square images, single rows and single columns, up to MaxSide a side *)
CausalInit ==
    /\ height \in 1 .. MaxSide
    /\ width \in 1 .. MaxSide
    /\ height = width \/ height = 1 \/ width = 1
    /\ batch_size = 2
    /\ params \in ParamSet
    /\ output = PixelCNN
    /\ images \in CanvasPairs(height, width)
    /\ pc = "idle"
    /\ probs = << >>
    /\ GenIdle
    /\ TrainIdle
    /\ MaskIdle

predict_call ==
    /\ pc = "idle"
    /\ probs' = predict(output, params, images, height, width)
    /\ pc' = "predicted"
    /\ UNCHANGED << shapeVars, modelVars, images, genVars, trainVars, maskVars >>

CausalNext == predict_call

SpecCausal == CausalInit /\ [][CausalNext]_vars

-----------------------------------------------------------------------------
(* Loss and optimization *)

(* 10 * ln(1 + e^-a) for a >= 0, rounded: costs are kept in tenths *)
Softplus(a) ==
    CASE a = 0 -> 7
      [] a = 1 -> 3
      [] a = 2 -> 1
      [] OTHER -> 0

(* tf.nn.sigmoid_cross_entropy_with_logits for one logit x and label z:
   max(x, 0) - x * z + ln(1 + e^-|x|), in tenths *)
CrossEntropy(x, z) ==
    10 * ((IF x > 0 THEN x ELSE 0) - x * z) + Softplus(IF x < 0 THEN 0 - x ELSE x)

(* h * w positions in raster order, numbered from 1 *)
NthPos(k, w) == << (k - 1) \div w, (k - 1) % w >>

(* loss: the mean over the batch and over the pixels *)
loss(prm, imgs, h, w) ==
    Sum([ b \in DOMAIN imgs |->
            Bind(Logits(prm, imgs[b], h, w), LAMBDA lg :
                Sum([ k \in 1 .. h * w |-> CrossEntropy(lg[NthPos(k, w)], imgs[b][NthPos(k, w)]) ],
                    h * w)) ],
        Len(imgs)) \div (Len(imgs) * h * w)

(* optimizer.compute_gradients(loss): one gradient per variable, shaped like it.
   The values stand in for the autodiff engine's: they follow from the loss value
   and the step, and range over -GradMax .. GradMax *)
compute_gradients(prm, cost, step) ==
    LET c == ((cost + 3 * step) % (2 * GradMax + 1)) - GradMax
    IN  [ l \in DOMAIN prm |->
            [ w |-> Table([ q \in DOMAIN prm[l].w |->
                              IF (q[1] + q[2] + q[4] + l) % 2 = 0 THEN c ELSE 0 - c ]),
              b |-> Table([ co \in DOMAIN prm[l].b |-> IF co % 2 = 0 THEN c ELSE c - 1 ]) ] ]

(* Variant: the gradient passes through unclipped *)
clip_by_value_none(g, lo, hi) == g

clip_by_value(g, lo, hi) == IF g < lo THEN lo ELSE IF g > hi THEN hi ELSE g

(* new_grads_and_vars *)
ClipGradients(gv) ==
    [ l \in DOMAIN gv |->
        [ w |-> Table([ q \in DOMAIN gv[l].w |->
                          clip_by_value(gv[l].w[q], 0 - grad_clip, grad_clip) ]),
          b |-> Table([ co \in DOMAIN gv[l].b |->
                          clip_by_value(gv[l].b[co], 0 - grad_clip, grad_clip) ]) ] ]

(* optimizer.apply_gradients: every variable moves against its gradient (the
   optimizer's own step size and moving averages are left out) *)
apply_gradients(prm, gv) ==
    [ l \in DOMAIN prm |->
        [ w |-> Table([ q \in DOMAIN prm[l].w |-> prm[l].w[q] - gv[l].w[q] ]),
          b |-> Table([ co \in DOMAIN prm[l].b |-> prm[l].b[co] - gv[l].b[co] ]) ] ]

-----------------------------------------------------------------------------
(* The datasets and the training loop *)

(* Example k of the data: grey levels in thousandths *)
Example(k, h, w) == Table([ pos \in Pos(h, w) |-> ((3 * pos[1] + 5 * pos[2] + 7 * k) % 11) * 100 ])

TrainData(h, w) == [ k \in 1 .. NumTrainExamples |-> Example(k, h, w) ]

TestData(h, w) == [ k \in 1 .. NumTestExamples |-> Example(NumTrainExamples + k, h, w) ]

(* next_batch(n): the n examples from the read position on, wrapping around *)
next_batch(data, at, n) == [ b \in 1 .. n |-> data[((at + b - 1) % Len(data)) + 1] ]

train_step_per_epoch == NumTrainExamples \div batch_size

test_step_per_epoch == NumTestExamples \div batch_size

(* np.mean of a list of costs *)
Mean(costs) == Sum(costs, Len(costs)) \div Len(costs)

(* Variant: the last step's costs are reported *)
OnStepArgs_last ==
    << total_train_costs[Len(total_train_costs)], total_test_costs[Len(total_test_costs)] >>

(* avg_train_cost, avg_test_cost *)
OnStepArgs == << Mean(total_train_costs), Mean(total_test_costs) >>

(* Statistic.on_step: counts the call and keeps what it was given *)
on_step(st, avg_train_cost, avg_test_cost) ==
    [ t |-> st.t + 1, train |-> avg_train_cost, test |-> avg_test_cost ]

TrainInit ==
    /\ height \in 1 .. MaxHeight
    /\ width \in 1 .. MaxWidth
    /\ batch_size \in 1 .. MaxBatch
    /\ params \in ParamSet
    /\ output = PixelCNN
    /\ images = << >>
    /\ pc = "train"
    /\ probs = << >>
    /\ GenIdle
    /\ TrainIdle
    /\ MaskIdle

(* Where the notebook goes after training step n of the epoch *)
AfterTrainStep(n) == IF n + 1 < train_step_per_epoch THEN "train" ELSE "test"

AfterTestStep(n) == IF n + 1 < test_step_per_epoch THEN "test" ELSE "on_step"

train_step ==
    /\ pc = "train"
    /\ \E batch \in { binarize(next_batch(TrainData(height, width), cursor.train, batch_size)) } :
       \E cost \in { loss(params, batch, height, width) } :
       \E gv \in { compute_gradients(params, cost, idx + epoch) } :
           /\ images' = batch
           /\ gradients' = gv
           /\ applied' = ClipGradients(gv)
           /\ params' = apply_gradients(params, ClipGradients(gv))
           /\ total_train_costs' = Append(total_train_costs, cost)
    /\ cursor' = [ cursor EXCEPT !.train = (cursor.train + batch_size) % NumTrainExamples ]
    /\ since_on_step' = since_on_step + 1
    /\ pc' = AfterTrainStep(idx)
    /\ idx' = IF AfterTrainStep(idx) = "train" THEN idx + 1 ELSE 0
    /\ UNCHANGED << shapeVars, output, genVars, probs, epoch, total_test_costs, stat, maskVars >>

test_step ==
    /\ pc = "test"
    /\ \E batch \in { binarize(next_batch(TestData(height, width), cursor.test, batch_size)) } :
           /\ images' = batch
           /\ total_test_costs' = Append(total_test_costs, loss(params, batch, height, width))
    /\ cursor' = [ cursor EXCEPT !.test = (cursor.test + batch_size) % NumTestExamples ]
    /\ pc' = AfterTestStep(idx)
    /\ idx' = IF AfterTestStep(idx) = "test" THEN idx + 1 ELSE 0
    /\ UNCHANGED << shapeVars, modelVars, genVars, probs, epoch, total_train_costs,
                    gradients, applied, stat, since_on_step, maskVars >>

epoch_on_step ==
    /\ pc = "on_step"
    /\ stat' = on_step(stat, OnStepArgs[1], OnStepArgs[2])
    /\ since_on_step' = 0
    /\ pc' = "sample"
    /\ UNCHANGED << shapeVars, modelVars, images, genVars, probs, epoch, idx,
                    total_train_costs, total_test_costs, gradients, applied, cursor,
                    maskVars >>

(* samples = generate_occlusions(...) in the loop, and in the cell after it *)
epoch_generate ==
    /\ pc \in { "sample", "final" }
    /\ samples' = occlude(images, height, width)
    /\ pc' = "occlusions"
    /\ i' = StartRow(height)
    /\ j' = 0
    /\ passes' = 0
    /\ writes' = << >>
    /\ UNCHANGED << shapeVars, modelVars, images, probs, trainVars, maskVars >>

(* generate_occlusions returns, the samples are saved, the next epoch starts *)
epoch_end ==
    /\ pc = "occlusions"
    /\ i >= height
    /\ epoch < max_epoch
    /\ epoch' = epoch + 1
    /\ idx' = 0
    /\ IF epoch + 1 < max_epoch
       THEN /\ pc' = "train"
            /\ total_train_costs' = << >>
            /\ total_test_costs' = << >>
       ELSE /\ pc' = "final"
            /\ UNCHANGED << total_train_costs, total_test_costs >>
    /\ UNCHANGED << shapeVars, modelVars, images, genVars, probs, gradients, applied,
                    stat, since_on_step, cursor, maskVars >>

final_return ==
    /\ pc = "occlusions"
    /\ i >= height
    /\ epoch = max_epoch
    /\ pc' = "done"
    /\ UNCHANGED << shapeVars, modelVars, images, genVars, probs, trainVars, maskVars >>

TrainNext ==
    \/ train_step
    \/ test_step
    \/ epoch_on_step
    \/ epoch_generate
    \/ occlusions_step
    \/ epoch_end
    \/ final_return

SpecTrain == TrainInit /\ [][TrainNext]_vars

(* The generation loops run to completion: a loop body and a return are blocking
   calls that the interpreter runs as soon as their turn comes *)
FairSpecGen ==
    /\ SpecGen
    /\ WF_vars(generate_step)
    /\ WF_vars(generate_return)
    /\ WF_vars(occlusions_step)
    /\ WF_vars(occlusions_return)

-----------------------------------------------------------------------------
(* Properties of the generation loops *)

InGenerate == pc \in { "generate", "generate_done" }

InOcclusions == pc \in { "occlusions", "occlusions_done" }

(* The k-th position of the raster scan that starts at row r0 *)
RasterPos(k, r0, w) == << r0 + (k - 1) \div w, (k - 1) % w >>

(* C1: while generate_occlusions runs and when it has returned, every Canvas row
   above height // 2 equals the same row of the seed images *)
C1_TopRowsKept ==
    InOcclusions =>
        \A b \in DOMAIN samples : \A pos \in Pos(height, width) :
            pos[1] < height \div 2 => samples[b][pos] = images[b][pos]

C1_Witness ==
    /\ pc = "occlusions_done"
    /\ height = 3
    /\ \E b \in DOMAIN samples : \E pos \in Pos(height, width) :
           /\ pos[1] >= height \div 2
           /\ samples[b][pos] # images[b][pos]
    /\ \E b \in DOMAIN samples : \E pos \in Pos(height, width) :
           pos[1] < height \div 2 /\ samples[b][pos] = 1

(* C2: in generate, every position at or after the next pixel (i, j) still holds
   zero; a position before it is non-zero only if the step that wrote it stored a
   binarized 1; and no position is written twice *)
C2_RasterFrontier ==
    InGenerate =>
        /\ \A b \in DOMAIN samples : \A pos \in Pos(height, width) :
               /\ ~Before(pos, << i, j >>) => samples[b][pos] = 0
               /\ Before(pos, << i, j >>) /\ samples[b][pos] # 0 =>
                      \E k \in DOMAIN writes :
                          writes[k].pos = pos /\ writes[k].vals[b] = 1
        /\ \A k1, k2 \in DOMAIN writes : writes[k1].pos = writes[k2].pos => k1 = k2

C2_Witness ==
    /\ pc = "generate"
    /\ output = PixelCNN
    /\ Len(writes) >= 2
    /\ i < height
    /\ \E pos \in Pos(height, width) : samples[1][pos] = 1
    /\ \E k \in DOMAIN writes : writes[k].vals[1] = 0

(* C5: with an output that holds one probability everywhere, generate returns
   all ones when it is above the threshold and all zeros when it is below *)
C5_ConstantModel ==
    pc = "generate_done" /\ output.kind = "const" =>
        \A b \in DOMAIN samples : \A pos \in Pos(height, width) :
            /\ output.p > Threshold => samples[b][pos] = 1
            /\ output.p < Threshold => samples[b][pos] = 0

C5_Witness ==
    /\ pc = "generate_done"
    /\ output = Constant(900)
    /\ height = 3
    /\ width = 3
    /\ \A b \in DOMAIN samples : \A pos \in Pos(height, width) : samples[b][pos] = 1

(* C6: the Canvas of generate has the configured batch size, and the requested
   height and width *)
C6_CanvasShape ==
    InGenerate =>
        /\ Len(samples) = batch_size
        /\ \A b \in DOMAIN samples : DOMAIN samples[b] = Pos(height, width)

(* C9: a generation call ends, having run one forward pass per regenerated
   pixel, the k-th pass for the k-th pixel in raster order: height * width passes
   in generate, (height - height // 2) * width in generate_occlusions *)
C9_OnePassPerPixel ==
    /\ [](InGenerate \/ InOcclusions =>
            /\ passes = Len(writes)
            /\ \A k \in DOMAIN writes :
                   writes[k].pos =
                       RasterPos(k, IF InGenerate THEN 0 ELSE height \div 2, width))
    /\ [](pc = "generate_done" => passes = height * width)
    /\ [](pc = "occlusions_done" => passes = (height - height \div 2) * width)
    /\ (pc = "generate" ~> pc = "generate_done")
    /\ (pc = "occlusions" ~> pc = "occlusions_done")

C9_Witness ==
    /\ pc = "occlusions_done"
    /\ height = 3
    /\ width = 2
    /\ passes = 4

(* C10: the Canvas generate returned is a fixed point of one more step,
   binarize(predict(Canvas)) = Canvas; for generate_occlusions this holds in the
   rows from height // 2 on *)
C10_FixedPoint ==
    pc \in { "generate_done", "occlusions_done" } =>
        \A again \in { binarize(predict(output, params, samples, height, width)) } :
            \A b \in DOMAIN samples : \A pos \in Pos(height, width) :
                pc = "generate_done" \/ pos[1] >= height \div 2 =>
                    again[b][pos] = samples[b][pos]

C10_Witness ==
    /\ pc = "generate_done"
    /\ output = PixelCNN
    /\ \E pos \in Pos(height, width) : samples[1][pos] = 1
    /\ \E pos \in Pos(height, width) : samples[1][pos] = 0

-----------------------------------------------------------------------------
(* Properties of the model and of the mask *)

(* The two canvases of the batch agree on every position before pos *)
AgreeBefore(pos) == \A q \in Pos(height, width) : Before(q, pos) => images[1][q] = images[2][q]

(* C3: the model is causal: where two input canvases agree on every position
   strictly before a position, the model's outputs at that position are equal *)
C3_Causal ==
    pc = "predicted" =>
        \A pos \in Pos(height, width) : AgreeBefore(pos) => probs[1][pos] = probs[2][pos]

C3_Witness ==
    /\ pc = "predicted"
    /\ height = 4
    /\ width = 4
    /\ images[1][<< 0, 3 >>] # images[2][<< 0, 3 >>]
    /\ AgreeBefore(<< 0, 3 >>)
    /\ probs[1][<< 0, 3 >>] = probs[2][<< 0, 3 >>]
    /\ probs[1][<< 3, 0 >>] # probs[2][<< 3, 0 >>]

(* The position of q in the raster scan of a kernel kw wide *)
RasterIndex(q, kw) == q[1] * kw + q[2]

(* C4: the mask is 1 exactly at the kernel positions raster-earlier than the
   center, and at the center for type B; so the type-A mask is the type-B mask
   with the center zeroed, and the masks of the layers after the first, 1x1 of
   type B, are all ones *)
C4_MaskShape ==
    pc = "masked" =>
        LET center == << kernel.kh \div 2, kernel.kw \div 2 >>
        IN  /\ \A q \in (0 .. kernel.kh - 1) \X (0 .. kernel.kw - 1) :
                   built_mask[q] =
                       IF \/ RasterIndex(q, kernel.kw) < RasterIndex(center, kernel.kw)
                          \/ (q = center /\ kernel.t = "B")
                       THEN 1 ELSE 0
            /\ MaskGenerator(kernel.kh, kernel.kw, "A") =
                   [ MaskGenerator(kernel.kh, kernel.kw, "B") EXCEPT ![center] = 0 ]
            /\ \A l \in 2 .. NumLayers :
                   \A q \in (0 .. Layers[l].kh - 1) \X (0 .. Layers[l].kw - 1) :
                       MaskGenerator(Layers[l].kh, Layers[l].kw, Layers[l].t)[q] = 1

C4_Witness ==
    /\ pc = "masked"
    /\ kernel = [ kh |-> 7, kw |-> 7, t |-> "A" ]
    /\ built_mask[<< 3, 2 >>] = 1
    /\ built_mask[<< 3, 3 >>] = 0
    /\ built_mask[<< 2, 6 >>] = 1
    /\ built_mask[<< 4, 0 >>] = 0

-----------------------------------------------------------------------------
(* Properties of the training loop *)

(* C7 as stated: an on_step call follows every training step, so no two
   training steps run without one between them *)
C7_OnStepEveryTrainingStep == since_on_step <= 1

(* C7, amended: stat.on_step is called once per epoch, after all of the epoch's
   train_step_per_epoch training steps and its test steps, with the means of the
   epoch's train and test costs *)
C7_OnStepEveryEpoch ==
    /\ pc \in { "train", "test", "on_step" } => stat.t = epoch
    /\ pc \in { "sample", "occlusions" } /\ epoch < max_epoch => stat.t = epoch + 1
    /\ epoch = max_epoch => stat.t = max_epoch
    /\ pc = "on_step" =>
           /\ since_on_step = train_step_per_epoch
           /\ Len(total_train_costs) = train_step_per_epoch
           /\ Len(total_test_costs) = test_step_per_epoch
    /\ pc = "sample" =>
           /\ since_on_step = 0
           /\ stat.train = Mean(total_train_costs)
           /\ stat.test = Mean(total_test_costs)

C7_Witness ==
    /\ pc = "sample"
    /\ epoch = 1
    /\ stat.t = 2
    /\ train_step_per_epoch = 2
    /\ total_train_costs[1] # total_train_costs[2]

(* C8: every gradient component handed to apply_gradients is the component
   compute_gradients returned, clipped to -grad_clip .. grad_clip *)
C8_ClippedBeforeApplied ==
    applied # << >> =>
        \A l \in DOMAIN applied :
            /\ \A q \in DOMAIN applied[l].w :
                   /\ applied[l].w[q] >= 0 - grad_clip
                   /\ applied[l].w[q] <= grad_clip
                   /\ gradients[l].w[q] \in (0 - grad_clip) .. grad_clip =>
                          applied[l].w[q] = gradients[l].w[q]
            /\ \A co \in DOMAIN applied[l].b :
                   /\ applied[l].b[co] >= 0 - grad_clip
                   /\ applied[l].b[co] <= grad_clip
                   /\ gradients[l].b[co] \in (0 - grad_clip) .. grad_clip =>
                          applied[l].b[co] = gradients[l].b[co]

C8_Witness ==
    /\ applied # << >>
    /\ \E l \in DOMAIN applied : \E q \in DOMAIN applied[l].w :
           gradients[l].w[q] > grad_clip /\ applied[l].w[q] = grad_clip
    /\ \E l \in DOMAIN applied : \E q \in DOMAIN applied[l].w :
           gradients[l].w[q] < 0 - grad_clip /\ applied[l].w[q] = 0 - grad_clip

====
